---- MODULE Spec2Model ----
(***************************************************************************)
(* State-machine model of the OnchainSummerBooth React component           *)
(* (src/src/components/onchain-summer-booth.tsx).                          *)
(*                                                                         *)
(* The component's React state (imageSrc, zoom, position, isDragging,      *)
(* dragStart, imageLoaded, originalImageDimensions) is the model's state,  *)
(* together with the environment the handlers read and write: the preview  *)
(* container (mounted, measured width), the hidden canvas, the object URLs *)
(* handed out by URL.createObjectURL, the image decodes in flight and the  *)
(* exports in flight.  Every event handler and every image-load callback   *)
(* is one atomic action (JavaScript runs each to completion).              *)
(*                                                                         *)
(* JavaScript numbers are modelled as exact rationals <<n, d>> with d > 0, *)
(* kept in lowest terms, so that 0.30, 0.001 and the quotients the code    *)
(* computes are represented without rounding.                              *)
(***************************************************************************)
EXTENDS Integers, Sequences, FiniteSets, TLC

VARIABLES
    imageSrc,                  \* useState<string|null>: 0 is null, u > 0 is object URL u
    zoom,                      \* useState(1): a rational
    position,                  \* useState({x: 0, y: 0})
    isDragging,                \* useState(false)
    dragStart,                 \* useState({x: 0, y: 0})
    imageLoaded,               \* useState(false)
    originalImageDimensions,   \* useState({width: 0, height: 0})
    mounted,                   \* imageContainerRef.current / canvasRef.current are non-null
    containerWidth,            \* imageContainerRef.current.getBoundingClientRect().width
    canvas,                    \* the hidden <canvas>: size and the drawing calls it holds
    objectUrls,                \* objectUrls[u]: natural size of the file behind object URL u
    revoked,                   \* object URLs passed to URL.revokeObjectURL
    decodes,                   \* decodes[u]: Image objects loading URL u whose onload is autoFitImage
    exports,                   \* the generateAndDownload calls made, each with its closure
    downloads,                 \* the files handed to the browser by link.click()
    listeners,                 \* the drag effect's listeners on window, counted per event type
    events                     \* number of input events handled so far

vars == <<imageSrc, zoom, position, isDragging, dragStart, imageLoaded,
          originalImageDimensions, mounted, containerWidth, canvas,
          objectUrls, revoked, decodes, exports, downloads, listeners, events>>

----------------------------------------------------------------------------
(* Bounds of the model *)

\* input events (file choices, pointer and wheel events, slider changes, clicks,
\* layout changes) in one behaviour; load callbacks are not counted
MaxEvents == 4

(* Inputs *)

\* natural sizes <<width, height>> of the files a user picks: landscape, square, portrait
ImageSizes == { <<40, 30>>, <<1000, 1000>>, <<100, 200>> }
\* measured widths of the preview container (0: not laid out)
Widths == { 0, 256, 512 }
\* pointer positions <<clientX, clientY>>
Pointers == { <<0, 0>>, <<10, 20>> }
\* wheel deltaY values
WheelDeltas == { 1500, -5000 }
\* values the slider reports: within [min, max], multiples of step
SliderValues == { <<1, 2>>, <<27, 20>>, <<3, 1>> }

----------------------------------------------------------------------------
(* Program constants *)

EDITOR_WIDTH == 512
EDITOR_HEIGHT == 512
FRAME_SIZE_PERCENT == <<3, 10>>
FRAME_TOP_PERCENT == <<19, 25>>
FRAME_LEFT_PERCENT == <<1, 2>>
\* an <canvas> element without width/height attributes
DEFAULT_CANVAS_WIDTH == 300
DEFAULT_CANVAS_HEIGHT == 150
NoImage == 0

----------------------------------------------------------------------------
(* JavaScript number arithmetic, on exact rationals *)

Abs(i) == IF i < 0 THEN -i ELSE i

RECURSIVE GCD(_, _)
GCD(a, b) == IF b = 0 THEN a ELSE GCD(b, a % b)

Rat(n, d) ==
    IF n = 0 THEN <<0, 1>>
    ELSE LET s == IF d < 0 THEN -1 ELSE 1
             g == GCD(Abs(n), Abs(d))
         IN  <<(s * n) \div g, (s * d) \div g>>

Num(i) == <<i, 1>>
RAdd(a, b) == Rat(a[1] * b[2] + b[1] * a[2], a[2] * b[2])
RSub(a, b) == Rat(a[1] * b[2] - b[1] * a[2], a[2] * b[2])
RMul(a, b) == Rat(a[1] * b[1], a[2] * b[2])
RDiv(a, b) == Rat(a[1] * b[2], a[2] * b[1])
RLe(a, b) == a[1] * b[2] <= b[1] * a[2]
RLt(a, b) == a[1] * b[2] < b[1] * a[2]
RMax(a, b) == IF RLe(a, b) THEN b ELSE a
RMin(a, b) == IF RLe(a, b) THEN a ELSE b

ZOOM_MIN == <<1, 2>>
ZOOM_MAX == <<3, 1>>
WHEEL_STEP == <<1, 1000>>

\* absolute radius in canvas pixels
FRAME_ABS_RADIUS == RDiv(RMul(Num(EDITOR_WIDTH), FRAME_SIZE_PERCENT), Num(2))

----------------------------------------------------------------------------
(* Pure computations of the handlers *)

Point(x, y) == [x |-> x, y |-> y]
Dimensions(w, h) == [width |-> w, height |-> h]

\* contain-fit instead of cover-fit: the branches of autoFitImage exchanged
AutoFitZoomContain(w, h, cw) ==
    LET previewFramePixelWidth == RMul(Num(cw), FRAME_SIZE_PERCENT)
    IN  IF w > h
        THEN RDiv(previewFramePixelWidth, Num(w))
        ELSE RDiv(previewFramePixelWidth, Num(h))

\* autoFitImage, the zoom it computes for an image of natural size w x h in a
\* preview container of measured width cw
AutoFitZoom(w, h, cw) ==
    LET previewFramePixelWidth == RMul(Num(cw), FRAME_SIZE_PERCENT)
        imgAspect == RDiv(Num(w), Num(h))
    IN  IF RLt(Num(1), imgAspect)
        THEN RDiv(previewFramePixelWidth, Num(h))
        ELSE RDiv(previewFramePixelWidth, Num(w))

\* handleWheel: Math.max(0.5, Math.min(zoom - e.deltaY * 0.001, 3))
WheelZoom(z, deltaY) ==
    RMax(ZOOM_MIN, RMin(RSub(z, RMul(Num(deltaY), WHEEL_STEP)), ZOOM_MAX))

\* the drag start taken as the pointer position alone, the offset forgotten
DragStartForgetsOffset(p, pos) == Point(p[1], p[2])

\* handleMouseDown: { x: e.clientX - position.x, y: e.clientY - position.y }
DragStartFor(p, pos) == Point(p[1] - pos.x, p[2] - pos.y)

\* handleMouseMove: { x: e.clientX - dragStart.x, y: e.clientY - dragStart.y }
DraggedPosition(p, ds) == Point(p[1] - ds.x, p[2] - ds.y)

\* a reset that leaves the zoom as it is
NeutralZoomKept == zoom

\* the else branch of resetTransform
NeutralZoom == Num(1)
NeutralPosition == Point(0, 0)

\* what getBoundingClientRect().width gives through imageContainerRef.current?.,
\* -1 standing for undefined (the ref is null)
MeasuredWidth == IF mounted THEN containerWidth ELSE -1

\* the ratio taken the wrong way round: preview width over editor width
PreviewToEditorRatio(measured) ==
    RDiv(Num(IF measured > 0 THEN measured ELSE EDITOR_WIDTH), Num(EDITOR_WIDTH))

\* EDITOR_WIDTH / (imageContainerRef.current?.getBoundingClientRect().width || EDITOR_WIDTH)
EditorToPreviewRatio(measured) ==
    RDiv(Num(EDITOR_WIDTH), Num(IF measured > 0 THEN measured ELSE EDITOR_WIDTH))

\* the test without its second conjunct
HasImageSrc(src, dims) == src # NoImage

\* the test of bgImage.onload: imageSrc && originalImageDimensions.width > 0
HasUserImage(src, dims) == src # NoImage /\ dims.width > 0

\* the canvas sized after the preview container instead of the editor constants
PreviewSizedCanvas == [width |-> containerWidth, height |-> containerWidth, ops |-> <<>>]

\* canvas.width = EDITOR_WIDTH; canvas.height = EDITOR_HEIGHT (assigning clears the bitmap)
ExportCanvas == [width |-> EDITOR_WIDTH, height |-> EDITOR_HEIGHT, ops |-> <<>>]

\* the values of the render that generateAndDownload and its nested callbacks close over
Closure == [imageSrc |-> imageSrc, zoom |-> zoom, position |-> position,
            dims |-> originalImageDimensions]

\* callbacks that read the component's state when they run
LiveState(e) == Closure

\* the values the callbacks of export e read
Captured(e) == [imageSrc |-> exports[e].imageSrc, zoom |-> exports[e].zoom,
                position |-> exports[e].position, dims |-> exports[e].dims]

\* ctx.drawImage(bgImage, 0, 0, EDITOR_WIDTH, EDITOR_HEIGHT)
BackgroundOp == [op |-> "bg", src |-> NoImage, x |-> Num(0), y |-> Num(0),
                 w |-> Num(EDITOR_WIDTH), h |-> Num(EDITOR_HEIGHT),
                 clip |-> <<>>]

\* a drawImage that puts the image's top-left corner, not its centre, on the circle
UserImageOpTopLeftAtCenter(c, m) ==
    LET circleCenterX == RMul(Num(EDITOR_WIDTH), FRAME_LEFT_PERCENT)
        circleCenterY == RMul(Num(EDITOR_HEIGHT), FRAME_TOP_PERCENT)
        editorToPreviewRatio == EditorToPreviewRatio(m)
    IN  [op |-> "user", src |-> c.imageSrc,
         x |-> RAdd(circleCenterX, RMul(Num(c.position.x), editorToPreviewRatio)),
         y |-> RAdd(circleCenterY, RMul(Num(c.position.y), editorToPreviewRatio)),
         w |-> RMul(Num(c.dims.width), c.zoom), h |-> RMul(Num(c.dims.height), c.zoom),
         clip |-> <<circleCenterX, circleCenterY, FRAME_ABS_RADIUS>>]

\* userImage.onload: the clipped ctx.drawImage(userImage, imgCanvasX, imgCanvasY,
\* scaledImageWidth, scaledImageHeight) for closure values c and measured width m
UserImageOp(c, m) ==
    LET circleCenterX == RMul(Num(EDITOR_WIDTH), FRAME_LEFT_PERCENT)
        circleCenterY == RMul(Num(EDITOR_HEIGHT), FRAME_TOP_PERCENT)
        scaledImageWidth == RMul(Num(c.dims.width), c.zoom)
        scaledImageHeight == RMul(Num(c.dims.height), c.zoom)
        editorToPreviewRatio == EditorToPreviewRatio(m)
        canvasOffsetX == RMul(Num(c.position.x), editorToPreviewRatio)
        canvasOffsetY == RMul(Num(c.position.y), editorToPreviewRatio)
        imgCanvasX == RAdd(RSub(circleCenterX, RDiv(scaledImageWidth, Num(2))), canvasOffsetX)
        imgCanvasY == RAdd(RSub(circleCenterY, RDiv(scaledImageHeight, Num(2))), canvasOffsetY)
    IN  [op |-> "user", src |-> c.imageSrc, x |-> imgCanvasX, y |-> imgCanvasY,
         w |-> scaledImageWidth, h |-> scaledImageHeight,
         clip |-> <<circleCenterX, circleCenterY, FRAME_ABS_RADIUS>>]

\* a serialization taken before the last drawing call
DownloadBeforeDraw(name, cv, e) ==
    [filename |-> name, export |-> e, width |-> cv.width, height |-> cv.height,
     layers |-> [i \in 1..(Len(cv.ops) - 1) |-> cv.ops[i].op]]

\* canvas.toDataURL + link.download + link.click(): the file export e hands to
\* the browser, with the size of the canvas cv and the images drawn on it
Download(name, cv, e) ==
    [filename |-> name, export |-> e, width |-> cv.width, height |-> cv.height,
     layers |-> [i \in 1..Len(cv.ops) |-> cv.ops[i].op]]

\* an export whose callbacks have all run: its closure is no longer referenced
Finished == [stage |-> "done", imageSrc |-> NoImage, zoom |-> Num(1),
             position |-> Point(0, 0), dims |-> Dimensions(0, 0)]

\* no listener of the drag effect is on window
NoListeners == [mousemove |-> 0, mouseup |-> 0]

\* the cleanup the drag effect returns: removeEventListener for both handlers
EffectCleanup(l) ==
    [mousemove |-> IF l.mousemove > 0 THEN l.mousemove - 1 ELSE 0,
     mouseup   |-> IF l.mouseup > 0 THEN l.mouseup - 1 ELSE 0]

\* a drag effect that adds its listeners and never removes them
DragEffectWithoutCleanup(l, dragging) ==
    IF dragging
    THEN [mousemove |-> l.mousemove + 1, mouseup |-> l.mouseup + 1]
    ELSE l

\* a re-run of the drag effect after a render with isDragging = dragging:
\* the previous run's cleanup, then the effect's body
DragEffect(l, dragging) ==
    LET cleaned == EffectCleanup(l)
    IN  IF dragging
        THEN [mousemove |-> cleaned.mousemove + 1, mouseup |-> cleaned.mouseup + 1]
        ELSE cleaned

\* an upload that leaves the superseded object URL alive
RevokedUnchanged(src, rev) == rev

\* the revoked URLs after handleFileChange's `if (imageSrc) URL.revokeObjectURL(imageSrc)`
RevokedAfterUpload(src, rev) == IF src # NoImage THEN rev \cup {src} ELSE rev

----------------------------------------------------------------------------
(* Initial state: the values of the useState calls, in a mounted component whose *)
(* preview container has been laid out                                          *)

Init ==
    /\ imageSrc = NoImage
    /\ zoom = Num(1)
    /\ position = Point(0, 0)
    /\ isDragging = FALSE
    /\ dragStart = Point(0, 0)
    /\ imageLoaded = FALSE
    /\ originalImageDimensions = Dimensions(0, 0)
    /\ mounted = TRUE
    /\ containerWidth \in Widths \ {0}
    /\ canvas = [width |-> DEFAULT_CANVAS_WIDTH, height |-> DEFAULT_CANVAS_HEIGHT, ops |-> <<>>]
    /\ objectUrls = <<>>
    /\ revoked = {}
    /\ decodes = <<>>
    /\ exports = <<>>
    /\ downloads = <<>>
    /\ listeners = NoListeners
    /\ events = 0

----------------------------------------------------------------------------
(* Actions: one per event handler or load callback *)

\* one more input event, within the bound of the model
Tick == events < MaxEvents /\ events' = events + 1

\* an autoFitImage that leaves the stored dimensions as they were
AutoFitImageKeepsDimensions(w, h) ==
    IF ~mounted
    THEN UNCHANGED <<zoom, position, imageLoaded, originalImageDimensions>>
    ELSE /\ zoom' = AutoFitZoom(w, h, containerWidth)
         /\ position' = Point(0, 0)
         /\ imageLoaded' = TRUE
         /\ UNCHANGED originalImageDimensions

\* autoFitImage(img), for an image of natural size w x h
AutoFitImage(w, h) ==
    IF ~mounted
    THEN UNCHANGED <<zoom, position, imageLoaded, originalImageDimensions>>
    ELSE /\ zoom' = AutoFitZoom(w, h, containerWidth)
         /\ position' = Point(0, 0)
         /\ imageLoaded' = TRUE
         /\ originalImageDimensions' = Dimensions(w, h)

\* handleFileChange with a file of natural size size
FileSelected(size) ==
    /\ mounted
    /\ Tick
    /\ LET newImageSrc == Len(objectUrls) + 1
       IN  /\ revoked' = RevokedAfterUpload(imageSrc, revoked)
           /\ objectUrls' = Append(objectUrls, size)
           /\ imageSrc' = newImageSrc
           /\ imageLoaded' = FALSE
           /\ decodes' = Append(decodes, 1)
    /\ UNCHANGED <<zoom, position, isDragging, dragStart, originalImageDimensions,
                   mounted, containerWidth, canvas, exports, downloads, listeners>>

\* a handleFileChange that drops the current image when no file is chosen
NoFileSelectedClearsImage ==
    /\ mounted
    /\ Tick
    /\ imageSrc' = NoImage
    /\ imageLoaded' = FALSE
    /\ revoked' = RevokedAfterUpload(imageSrc, revoked)
    /\ UNCHANGED <<zoom, position, isDragging, dragStart, originalImageDimensions,
                   mounted, containerWidth, canvas, objectUrls, decodes, exports,
                   downloads, listeners>>

\* handleFileChange with e.target.files empty (the picker was cancelled)
NoFileSelected ==
    /\ mounted
    /\ Tick
    /\ UNCHANGED <<imageSrc, zoom, position, isDragging, dragStart, imageLoaded,
                   originalImageDimensions, mounted, containerWidth, canvas,
                   objectUrls, revoked, decodes, exports, downloads, listeners>>

\* img.onload of handleFileChange or resetTransform, for an Image loading URL u
DecodeComplete(u) ==
    /\ u \in 1..Len(decodes)
    /\ decodes[u] > 0
    /\ decodes' = [decodes EXCEPT ![u] = @ - 1]
    /\ AutoFitImage(objectUrls[u][1], objectUrls[u][2])
    /\ UNCHANGED <<imageSrc, isDragging, dragStart, mounted, containerWidth, canvas,
                   objectUrls, revoked, exports, downloads, listeners, events>>

\* handleMouseDown at pointer position p
MouseDown(p) ==
    /\ mounted
    /\ Tick
    /\ isDragging' = TRUE
    /\ dragStart' = DragStartFor(p, position)
    /\ listeners' = DragEffect(listeners, TRUE)
    /\ UNCHANGED <<imageSrc, zoom, position, imageLoaded, originalImageDimensions,
                   mounted, containerWidth, canvas, objectUrls, revoked, decodes,
                   exports, downloads>>

\* handleMouseMove at pointer position p, called by the window's mousemove listener
MouseMove(p) ==
    /\ mounted
    /\ Tick
    /\ listeners.mousemove > 0
    /\ isDragging
    /\ position' = DraggedPosition(p, dragStart)
    /\ UNCHANGED <<imageSrc, zoom, isDragging, dragStart, imageLoaded,
                   originalImageDimensions, mounted, containerWidth, canvas,
                   objectUrls, revoked, decodes, exports, downloads, listeners>>

\* handleMouseUp, called by the window's mouseup listener
MouseUp ==
    /\ mounted
    /\ Tick
    /\ listeners.mouseup > 0
    /\ isDragging' = FALSE
    /\ listeners' = DragEffect(listeners, FALSE)
    /\ UNCHANGED <<imageSrc, zoom, position, dragStart, imageLoaded,
                   originalImageDimensions, mounted, containerWidth, canvas,
                   objectUrls, revoked, decodes, exports, downloads>>

\* handleWheel with e.deltaY = deltaY
Wheel(deltaY) ==
    /\ mounted
    /\ Tick
    /\ zoom' = WheelZoom(zoom, deltaY)
    /\ UNCHANGED <<imageSrc, position, isDragging, dragStart, imageLoaded,
                   originalImageDimensions, mounted, containerWidth, canvas,
                   objectUrls, revoked, decodes, exports, downloads, listeners>>

\* the Slider's onValueChange={v => setZoom(v[0])}; the Slider is disabled={!imageSrc}
SliderChange(v) ==
    /\ mounted
    /\ Tick
    /\ imageSrc # NoImage
    /\ zoom' = v
    /\ UNCHANGED <<imageSrc, position, isDragging, dragStart, imageLoaded,
                   originalImageDimensions, mounted, containerWidth, canvas,
                   objectUrls, revoked, decodes, exports, downloads, listeners>>

\* a resetTransform that always takes the branch without an image
ResetTransformToNeutral ==
    /\ mounted
    /\ Tick
    /\ zoom' = NeutralZoom
    /\ position' = NeutralPosition
    /\ UNCHANGED <<imageSrc, isDragging, dragStart, imageLoaded,
                   originalImageDimensions, mounted, containerWidth, canvas,
                   objectUrls, revoked, decodes, exports, downloads, listeners>>

\* resetTransform
ResetTransform ==
    /\ mounted
    /\ Tick
    /\ IF imageSrc # NoImage
       THEN /\ decodes' = [decodes EXCEPT ![imageSrc] = @ + 1]
            /\ UNCHANGED <<zoom, position>>
       ELSE /\ zoom' = NeutralZoom
            /\ position' = NeutralPosition
            /\ UNCHANGED decodes
    /\ UNCHANGED <<imageSrc, isDragging, dragStart, imageLoaded,
                   originalImageDimensions, mounted, containerWidth, canvas,
                   objectUrls, revoked, exports, downloads, listeners>>

\* a click on the Reset button, which is disabled={!imageSrc}
ResetClick ==
    /\ imageSrc # NoImage
    /\ ResetTransform

\* generateAndDownload up to bgImage.src = BACKGROUND_IMAGE_URL
GenerateAndDownload ==
    /\ mounted
    /\ Tick
    /\ canvas' = ExportCanvas
    /\ exports' = Append(exports, [stage |-> "bgLoading"] @@ Closure)
    /\ UNCHANGED <<imageSrc, zoom, position, isDragging, dragStart, imageLoaded,
                   originalImageDimensions, mounted, containerWidth, objectUrls,
                   revoked, decodes, downloads, listeners>>

\* a click on the Download button, which is disabled={!imageSrc}
DownloadClick ==
    /\ imageSrc # NoImage
    /\ GenerateAndDownload

\* bgImage.onload of export e
BgImageLoaded(e) ==
    /\ e \in 1..Len(exports)
    /\ exports[e].stage = "bgLoading"
    /\ LET c == Captured(e)
           drawn == [canvas EXCEPT !.ops = Append(@, BackgroundOp)]
       IN  IF HasUserImage(c.imageSrc, c.dims)
           THEN /\ canvas' = drawn
                /\ exports' = [exports EXCEPT ![e].stage =
                                  IF c.imageSrc \in revoked THEN "userError" ELSE "userLoading"]
                /\ UNCHANGED downloads
           ELSE /\ canvas' = drawn
                /\ exports' = [exports EXCEPT ![e] = Finished]
                /\ downloads' = Append(downloads, Download("onchain-summer-bg.png", drawn, e))
    /\ UNCHANGED <<imageSrc, zoom, position, isDragging, dragStart, imageLoaded,
                   originalImageDimensions, mounted, containerWidth, objectUrls,
                   revoked, decodes, listeners, events>>

\* userImage.onload of export e
UserImageLoaded(e) ==
    /\ e \in 1..Len(exports)
    /\ exports[e].stage = "userLoading"
    /\ LET drawn == [canvas EXCEPT !.ops = Append(@, UserImageOp(Captured(e), MeasuredWidth))]
       IN  /\ canvas' = drawn
           /\ downloads' = Append(downloads, Download("onchain-summer-booth.png", drawn, e))
    /\ exports' = [exports EXCEPT ![e] = Finished]
    /\ UNCHANGED <<imageSrc, zoom, position, isDragging, dragStart, imageLoaded,
                   originalImageDimensions, mounted, containerWidth, objectUrls,
                   revoked, decodes, listeners, events>>

\* the layout gives the preview container another width
Resize(w) ==
    /\ mounted
    /\ Tick
    /\ w # containerWidth
    /\ containerWidth' = w
    /\ UNCHANGED <<imageSrc, zoom, position, isDragging, dragStart, imageLoaded,
                   originalImageDimensions, mounted, canvas, objectUrls, revoked,
                   decodes, exports, downloads, listeners>>

\* the component unmounts: React clears the refs and runs the effect's cleanup;
\* pending callbacks still run
Unmount ==
    /\ mounted
    /\ Tick
    /\ mounted' = FALSE
    /\ listeners' = EffectCleanup(listeners)
    /\ UNCHANGED <<imageSrc, zoom, position, isDragging, dragStart, imageLoaded,
                   originalImageDimensions, containerWidth, canvas, objectUrls,
                   revoked, decodes, exports, downloads>>

Callbacks ==
    \/ \E u \in 1..Len(decodes) : DecodeComplete(u)
    \/ \E e \in 1..Len(exports) : BgImageLoaded(e)
    \/ \E e \in 1..Len(exports) : UserImageLoaded(e)

Events ==
    \/ \E size \in ImageSizes : FileSelected(size)
    \/ NoFileSelected
    \/ \E p \in Pointers : MouseDown(p)
    \/ \E p \in Pointers : MouseMove(p)
    \/ MouseUp
    \/ \E deltaY \in WheelDeltas : Wheel(deltaY)
    \/ \E v \in SliderValues : SliderChange(v)
    \/ \E w \in Widths : Resize(w)
    \/ Unmount

\* the component as rendered: the buttons honour their disabled attribute
Next ==
    \/ Events
    \/ Callbacks
    \/ ResetClick
    \/ DownloadClick

Spec == Init /\ [][Next]_vars

\* the handlers called directly, as a unit test of the component's functions does
NextHandlers ==
    \/ Events
    \/ Callbacks
    \/ ResetTransform
    \/ GenerateAndDownload

SpecHandlers == Init /\ [][NextHandlers]_vars

----------------------------------------------------------------------------
(* Properties *)

Min(a, b) == IF a <= b THEN a ELSE b
Last(q) == q[Len(q)]
UserOps == { i \in 1..Len(canvas.ops) : canvas.ops[i].op = "user" }

\* C1: in every reachable state zoom lies in [0.5, 3.0], the zoom written by
\* auto-fit (on upload decode and on reset) included.
C1_ZoomInRange ==
    /\ RLe(<<1, 2>>, zoom)
    /\ RLe(zoom, <<3, 1>>)

\* C2: when auto-fit completes for an image of width w and height h, the new
\* zoom times min(w, h) is the frame diameter, 30% of the preview container
\* width: diameter / h when w > h, diameter / w when w <= h.
C2_AutoFitCoversSmallerDimension ==
    [][\A u \in 1..Len(decodes) :
         (DecodeComplete(u) /\ mounted) =>
            LET w == objectUrls[u][1]
                h == objectUrls[u][2]
                diameter == RMul(<<3, 10>>, Num(containerWidth))
            IN  /\ RMul(zoom', Num(Min(w, h))) = diameter
                /\ (w > h => zoom' = RDiv(diameter, Num(h)))
                /\ (w <= h => zoom' = RDiv(diameter, Num(w)))
                /\ position' = Point(0, 0)]_vars

\* auto-fit has completed for the landscape image in a 512 pixel container
C2_Witness ==
    /\ imageLoaded
    /\ originalImageDimensions = Dimensions(40, 30)
    /\ containerWidth = 512
    /\ zoom = <<128, 25>>

\* C3: an export requested right after auto-fit (offset (0,0), zoom as auto-fit
\* left it) draws the user image with both drawn dimensions at least the export
\* frame diameter 512 * 0.30, so that the drawn rectangle contains the clip circle.
C3_AutoFitExportCoversFrame ==
    [][\A e \in 1..Len(exports) :
         (/\ UserImageLoaded(e)
          /\ exports[e].position = Point(0, 0)
          /\ \E cw \in Widths :
                exports[e].zoom = AutoFitZoom(exports[e].dims.width, exports[e].dims.height, cw))
         => LET drawn == Last(canvas'.ops)
                frameDiameter == <<768, 5>>
            IN  /\ RLe(frameDiameter, drawn.w)
                /\ RLe(frameDiameter, drawn.h)]_vars

\* C4: mouse-down and mouse-up never change the offset, and during a drag
\* started at pointer position p0 with offset o0 every mouse-move at pointer
\* position p sets offset = o0 + (p - p0): mouse-down stores p0 - o0, nothing
\* but a mouse-down changes what is stored, and a mouse-move sets p minus it.
C4_DragComposes ==
    [][/\ \A p0 \in Pointers :
            MouseDown(p0) =>
               /\ position' = position
               /\ dragStart'.x = p0[1] - position.x
               /\ dragStart'.y = p0[2] - position.y
               /\ \A p \in Pointers :
                     /\ p[1] - dragStart'.x = position.x + (p[1] - p0[1])
                     /\ p[2] - dragStart'.y = position.y + (p[2] - p0[2])
       /\ MouseUp => position' = position
       /\ (\A p0 \in Pointers : ~MouseDown(p0)) => dragStart' = dragStart
       /\ \A p \in Pointers :
            MouseMove(p) =>
               /\ position'.x = p[1] - dragStart.x
               /\ position'.y = p[2] - dragStart.y]_vars

\* the image has been dragged to a non-zero offset, released, and grabbed again
\* at pointer position (0,0)
C4_Witness ==
    /\ isDragging
    /\ position # Point(0, 0)
    /\ dragStart = Point(0 - position.x, 0 - position.y)
    /\ events >= 4

Downloaded == Len(downloads') = Len(downloads) + 1

C7_SrcAndDimensionsTogether ==
    IF imageSrc = NoImage
    THEN originalImageDimensions = Dimensions(0, 0)
    ELSE originalImageDimensions = Dimensions(objectUrls[imageSrc][1], objectUrls[imageSrc][2])

\* the closure values of an export record
ClosureOf(x) == <<x.imageSrc, x.zoom, x.position, x.dims>>

\* C8: the zoom, offset, image source and image dimensions an export uses are
\* the values held at the moment of the request: the request records them, no
\* event between the request and the load callbacks changes what is recorded,
\* and the callbacks decide and draw from what is recorded.
C8_ExportUsesRequestValues ==
    [][/\ GenerateAndDownload =>
            /\ Len(exports') = Len(exports) + 1
            /\ ClosureOf(Last(exports')) = <<imageSrc, zoom, position, originalImageDimensions>>
       /\ \A e \in 1..Len(exports) :
            (exports[e].stage # "done" /\ exports'[e].stage # "done") =>
               ClosureOf(exports'[e]) = ClosureOf(exports[e])
       /\ \A e \in 1..Len(exports) :
            BgImageLoaded(e) =>
               (exports'[e].stage \in {"userLoading", "userError"}
                  <=> (exports[e].imageSrc # NoImage /\ exports[e].dims.width > 0))
       /\ \A e \in 1..Len(exports) :
            UserImageLoaded(e) =>
               LET drawn == Last(canvas'.ops)
                   ratio == IF mounted /\ containerWidth # 0
                            THEN RDiv(<<512, 1>>, Num(containerWidth))
                            ELSE <<1, 1>>
               IN  /\ drawn.src = exports[e].imageSrc
                   /\ drawn.w = RMul(Num(exports[e].dims.width), exports[e].zoom)
                   /\ drawn.h = RMul(Num(exports[e].dims.height), exports[e].zoom)
                   /\ drawn.x = RAdd(RSub(<<256, 1>>, RDiv(drawn.w, <<2, 1>>)),
                                     RMul(Num(exports[e].position.x), ratio))
                   /\ drawn.y = RAdd(RSub(<<9728, 25>>, RDiv(drawn.h, <<2, 1>>)),
                                     RMul(Num(exports[e].position.y), ratio))]_vars

\* an export has drawn its background and waits for its user image, while a
\* wheel event and an upload since the request have changed zoom and image source
C8_Witness ==
    \E e \in 1..Len(exports) :
       /\ exports[e].stage = "userLoading"
       /\ exports[e].zoom # zoom
       /\ exports[e].imageSrc # imageSrc
       /\ Len(canvas.ops) > 0

\* C9: reset when no image has been uploaded sets zoom = 1 and offset = (0,0),
\* whatever zoom and offset wheel and drag events had reached.
C9_ResetWithoutImage ==
    [][(ResetTransform /\ imageSrc = NoImage) =>
          /\ zoom' = <<1, 1>>
          /\ position' = Point(0, 0)]_vars

\* no image, zoom back at 1 and offset at (0,0) after the wheel had taken the
\* zoom to 3, as the closure of a pending export still records (no wheel delta
\* of the model leads from 3 back to 1)
C9_Witness ==
    /\ imageSrc = NoImage
    /\ zoom = <<1, 1>>
    /\ position = Point(0, 0)
    /\ \E e \in 1..Len(exports) :
          exports[e].stage = "bgLoading" /\ exports[e].zoom = <<3, 1>>

\* C10: every export past the canvas/context test sets the canvas to 512 x 512
\* before any drawing, whatever the preview container width, and the canvas is
\* 512 x 512 when it is serialized.
C10_CanvasIs512 ==
    /\ Len(exports) > 0 => (canvas.width = 512 /\ canvas.height = 512)
    /\ Len(canvas.ops) > 0 => (canvas.width = 512 /\ canvas.height = 512)
    /\ \A i \in 1..Len(downloads) :
          downloads[i].width = 512 /\ downloads[i].height = 512

\* a file has been downloaded by an export requested while the preview
\* container measured zero
C10_Witness ==
    /\ containerWidth = 0
    /\ events = 3
    /\ Len(downloads) = 1
    /\ downloads[1].filename = "onchain-summer-booth.png"
    /\ canvas.width = 512

\* the zoom autoFitImage computes for the image behind object URL u
FitOf(u) ==
    RDiv(RMul(Rat(containerWidth, 1), FRAME_SIZE_PERCENT),
         Rat(Min(objectUrls[u][1], objectUrls[u][2]), 1))

\* C11: nothing guards a decode callback against a newer upload: when the
\* decode of an object URL that is no longer the current image source
\* completes in the mounted component, it overwrites the zoom, the offset and
\* the stored dimensions with the values of that older image, and the image
\* source stays the newer upload
C11_StaleDecodeOverwrites ==
    [][\A u \in 1..Len(decodes) :
          (DecodeComplete(u) /\ mounted /\ u # imageSrc)
              => /\ imageSrc' = imageSrc
                 /\ originalImageDimensions' = Dimensions(objectUrls[u][1], objectUrls[u][2])
                 /\ zoom' = FitOf(u)
                 /\ position' = Point(0, 0)
                 /\ imageLoaded']_vars

\* both decodes have completed, the first upload's last: the image source is
\* the second upload, the zoom and the dimensions are the first image's
C11_Witness ==
    /\ mounted
    /\ Len(objectUrls) = 2
    /\ imageSrc = 2
    /\ decodes = <<0, 0>>
    /\ objectUrls[1] # objectUrls[2]
    /\ FitOf(1) # FitOf(2)
    /\ imageLoaded
    /\ originalImageDimensions = Dimensions(objectUrls[1][1], objectUrls[1][2])
    /\ zoom = FitOf(1)

\* the stage of export e before and after the step ("none": not requested yet)
StageBefore(e) == IF e <= Len(exports) THEN exports[e].stage ELSE "none"
StageAfter(e) == exports'[e].stage
\* the names of the drawing calls the canvas holds after the step
LayersAfter == [i \in 1..Len(canvas'.ops) |-> canvas'.ops[i].op]

\* C12: within one export the steps run in the order: request, background
\* load and background draw, then (only if the export has a user image) user
\* image load and clipped user image draw, then serialization and download.
\* The user image of an export is drawn only after that export drew the
\* background, the file is serialized in the step of the export's last draw
\* and after it, and nothing draws or downloads outside these steps.
C12_ExportOrder ==
    [][/\ \A e \in 1..Len(exports') :
            StageAfter(e) # StageBefore(e) =>
               \/ /\ StageBefore(e) = "none"
                  /\ StageAfter(e) = "bgLoading"
                  /\ canvas'.ops = <<>>
                  /\ ~Downloaded
               \/ /\ StageBefore(e) = "bgLoading"
                  /\ StageAfter(e) \in {"userLoading", "userError"}
                  /\ exports[e].imageSrc # NoImage
                  /\ canvas'.ops = Append(canvas.ops, BackgroundOp)
                  /\ downloads' = downloads
               \/ /\ StageBefore(e) = "bgLoading"
                  /\ StageAfter(e) = "done"
                  /\ canvas'.ops = Append(canvas.ops, BackgroundOp)
                  /\ Downloaded
                  /\ Last(downloads').export = e
                  /\ Last(downloads').layers = LayersAfter
               \/ /\ StageBefore(e) = "userLoading"
                  /\ StageAfter(e) = "done"
                  /\ Len(canvas'.ops) = Len(canvas.ops) + 1
                  /\ Last(canvas'.ops).op = "user"
                  /\ Last(canvas'.ops).clip # <<>>
                  /\ Downloaded
                  /\ Last(downloads').export = e
                  /\ Last(downloads').layers = LayersAfter
       /\ (canvas' # canvas \/ downloads' # downloads) =>
             \E e \in 1..Len(exports') : StageAfter(e) # StageBefore(e)]_vars

\* an export with a user image has run to its download: background first,
\* the user image over it, then the file
C12_Witness ==
    \E i \in 1..Len(downloads) :
       /\ downloads[i].filename = "onchain-summer-booth.png"
       /\ downloads[i].layers = <<"bg", "user">>
       /\ exports[downloads[i].export].stage = "done"

\* the offset in output pixels of an export whose closure holds offset pos,
\* drawn while the preview container measures as it does now
OutputOffset(pos) ==
    LET ratio == IF mounted /\ containerWidth # 0
                 THEN RDiv(<<512, 1>>, Num(containerWidth))
                 ELSE <<1, 1>>
    IN  <<RMul(Num(pos.x), ratio), RMul(Num(pos.y), ratio)>>

\* C13: the export draws the user image with size (original width x zoom,
\* original height x zoom) and its top-left corner at the circle centre
\* (512 x 0.50, 512 x 0.76) = (256, 389.12) minus half the scaled size plus the
\* output offset, inside a clip circle of radius 512 x 0.30 / 2 = 76.8 about
\* that centre; with offset (0, 0) the centre of the drawn image is the centre
\* of the circle.
C13_DrawnAboutCircleCentre ==
    [][\A e \in 1..Len(exports) :
         UserImageLoaded(e) =>
            LET drawn == Last(canvas'.ops)
                c == exports[e]
                off == OutputOffset(c.position)
                half == <<1, 2>>
            IN  /\ drawn.op = "user"
                /\ drawn.w = RMul(Num(c.dims.width), c.zoom)
                /\ drawn.h = RMul(Num(c.dims.height), c.zoom)
                /\ drawn.x = RAdd(RSub(<<256, 1>>, RMul(drawn.w, half)), off[1])
                /\ drawn.y = RAdd(RSub(<<9728, 25>>, RMul(drawn.h, half)), off[2])
                /\ drawn.clip = << <<256, 1>>, <<9728, 25>>, <<384, 5>> >>
                /\ c.position = Point(0, 0) =>
                      /\ RAdd(drawn.x, RMul(drawn.w, half)) = <<256, 1>>
                      /\ RAdd(drawn.y, RMul(drawn.h, half)) = <<9728, 25>>]_vars

\* a user image drawn with offset (0, 0): the centre of its rectangle is the
\* centre of the clip circle
C13_Witness ==
    /\ Len(canvas.ops) = 2
    /\ canvas.ops[2].op = "user"
    /\ RLt(Num(0), canvas.ops[2].w)
    /\ RAdd(canvas.ops[2].x, RMul(canvas.ops[2].w, <<1, 2>>)) = <<256, 1>>
    /\ RAdd(canvas.ops[2].y, RMul(canvas.ops[2].h, <<1, 2>>)) = <<9728, 25>>
    /\ canvas.ops[2].clip[3] = <<384, 5>>

\* the state autoFitImage leaves for the image behind object URL u
AutoFitted(u) ==
    <<FitOf(u), Point(0, 0), Dimensions(objectUrls[u][1], objectUrls[u][2]), TRUE>>

\* C14: reset with an image re-derives the auto-fit. A click on Reset changes
\* no zoom and no offset itself, it starts one more decode of the current
\* image; when the decode of the current image completes in the mounted
\* component, zoom and offset are exactly the auto-fit values of that image
\* for the container width, whatever drags, wheel events and slider changes
\* came before, so for an unchanged width they are the values right after the
\* upload's auto-fit; completing a decode in a state that already holds them
\* changes nothing, so a second reset gives the state of the first.
C14_ResetRederivesAutoFit ==
    [][/\ ResetClick =>
            /\ decodes' = [decodes EXCEPT ![imageSrc] = @ + 1]
            /\ UNCHANGED <<imageSrc, zoom, position, originalImageDimensions,
                           containerWidth, objectUrls>>
       /\ \A u \in 1..Len(decodes) :
            (DecodeComplete(u) /\ mounted /\ u = imageSrc) =>
               /\ <<zoom', position', originalImageDimensions', imageLoaded'>> = AutoFitted(u)
               /\ <<zoom, position, originalImageDimensions, imageLoaded>> = AutoFitted(u)
                     => UNCHANGED <<imageSrc, zoom, position, originalImageDimensions,
                                    imageLoaded, isDragging, dragStart>>]_vars

\* an export requested after the wheel had moved the decoded image's zoom to 3
\* is still loading; since then a reset and its decode have brought zoom and
\* offset back to the auto-fit values
C14_Witness ==
    /\ mounted
    /\ events = MaxEvents
    /\ Len(objectUrls) = 1
    /\ imageSrc = 1
    /\ decodes = <<0>>
    /\ <<zoom, position, originalImageDimensions, imageLoaded>> = AutoFitted(1)
    /\ zoom # <<3, 1>>
    /\ \E e \in 1..Len(exports) :
          /\ exports[e].stage = "bgLoading"
          /\ exports[e].imageSrc = 1
          /\ exports[e].dims.width > 0
          /\ exports[e].zoom = <<3, 1>>

\* C15: the window's mousemove and mouseup listeners are registered exactly
\* while the mounted component has isDragging true, never more than one of
\* each, over any number of drag cycles; after a mouse-up, and after an
\* unmount, none is left.
C15_ListenersIffDragging ==
    /\ listeners.mousemove <= 1
    /\ listeners.mouseup <= 1
    /\ listeners.mousemove = listeners.mouseup
    /\ mounted => (listeners.mousemove = 1 <=> isDragging)
    /\ ~mounted => listeners = NoListeners

\* a drag moved the image, a second mouse-down re-ran the effect with the
\* handlers of the new render, and the mouse-up has removed both listeners
C15_Witness ==
    /\ mounted
    /\ ~isDragging
    /\ position = Point(10, 20)
    /\ dragStart = Point(-10, -20)
    /\ listeners = NoListeners

\* the object URLs created and not revoked
LiveUrls == (1..Len(objectUrls)) \ revoked

\* C16: at most one object URL is unrevoked at any time, and it is the
\* current image source; each upload revokes the URL it supersedes in the
\* step that installs the new one.
C16_OneLiveUrl ==
    /\ Cardinality(LiveUrls) <= 1
    /\ LiveUrls = IF imageSrc = NoImage THEN {} ELSE {imageSrc}
    /\ revoked = 1..(Len(objectUrls) - 1)

\* a second upload has superseded the first: the first URL is revoked, the
\* second is the image source and the only live URL
C16_Witness ==
    /\ Len(objectUrls) = 2
    /\ imageSrc = 2
    /\ revoked = {1}
    /\ LiveUrls = {2}

\* C17: a file-change event that carries no file changes nothing: image
\* source, loaded flag, zoom, offset, stored dimensions and drag state stay as
\* they are, no object URL is created or revoked and no decode is started.
C17_NoFileChangesNothing ==
    [][NoFileSelected =>
          /\ UNCHANGED <<imageSrc, imageLoaded, zoom, position, originalImageDimensions,
                         isDragging, dragStart, listeners>>
          /\ Len(objectUrls') = Len(objectUrls)
          /\ revoked' = revoked
          /\ decodes' = decodes
          /\ UNCHANGED <<canvas, exports, downloads>>]_vars

\* file-change events without a file have been handled with an image in
\* place: the image, its URL and its fit are as the upload and its decode
\* left them
C17_Witness ==
    /\ events = MaxEvents
    /\ imageSrc = 1
    /\ Len(objectUrls) = 1
    /\ revoked = {}
    /\ decodes = <<0>>
    /\ imageLoaded
    /\ zoom = FitOf(1)
    /\ position = Point(0, 0)
    /\ ~isDragging
    /\ dragStart = Point(0, 0)
    /\ exports = <<>>

\* C18: overlapping exports do not corrupt each other: every downloaded file
\* holds the background, drawn over the full 512 x 512 canvas, beneath
\* whatever else was drawn.
C18_EveryDownloadHasBackground ==
    \A i \in 1..Len(downloads) :
       /\ downloads[i].layers # <<>>
       /\ downloads[i].layers[1] = "bg"
       /\ downloads[i].width = 512
       /\ downloads[i].height = 512

\* C19: no image load is started from an object URL that has already been
\* revoked: not the decode an upload or a reset starts, and not the user
\* image load an export starts when its background has loaded.
C19_NoLoadFromRevokedUrl ==
    [][/\ \A u \in 1..Len(decodes') :
            (u > Len(decodes) \/ decodes'[u] > decodes[u]) => u \notin revoked'
       /\ \A e \in 1..Len(exports) :
            (BgImageLoaded(e) /\ HasUserImage(exports[e].imageSrc, exports[e].dims))
               => exports[e].imageSrc \notin revoked]_vars

\* the files export e has handed to the browser
DownloadsOf(e) == { i \in 1..Len(downloads) : downloads[i].export = e }
\* export e waits for a load callback that the browser will fire
LoadPending(e) == exports[e].stage \in {"bgLoading", "userLoading"}

\* C20: every export request that finds the canvas and its 2d context
\* eventually triggers exactly one download, given that the load callbacks of
\* valid URLs fire: in every reachable state an export has at most one
\* download, and an export that no longer waits for a load callback has
\* exactly one, so no interleaving of uploads, resets and further exports
\* leaves an export without its download.
C20_EveryExportDownloadsOnce ==
    \A e \in 1..Len(exports) :
       /\ Cardinality(DownloadsOf(e)) <= 1
       /\ ~LoadPending(e) => Cardinality(DownloadsOf(e)) = 1

============================================================================
